---- MODULE Spec2Model ----
(***************************************************************************)
(* A model of mkdocs/contrib/search/search_index.py: the ContentParser     *)
(* that segments a page's HTML into heading sections, and the SearchIndex  *)
(* that turns pages into entries and serialises the entry store.           *)
(*                                                                         *)
(* Python values are modelled as follows.  A str is a sequence of tokens   *)
(* (a token is one character of a text, or an opaque piece of a title, an  *)
(* id or a URL); '' is << >> and the concatenation a + b is a \o b.  None  *)
(* is the reserved one-token sequence None.  An Optional object reference  *)
(* is a sequence of length 0 (None) or 1.                                  *)
(***************************************************************************)
EXTENDS Naturals, Sequences, FiniteSets, TLC

VARIABLES
    config,      \* SearchIndex.config
    haslunrpy,   \* module global set by the import of lunr
    entries,     \* SearchIndex._entries
    pc,          \* "idle", "sections" (inside add_entry_from_context's loop), "feed" (a parser being fed)
    page,        \* the argument of the add_entry_from_context call in progress
    page_title,  \* its local page_title
    parser,      \* the ContentParser the call created, or the one being fed
    i,           \* the loop index of enumerate(parser.data), 0-based
    npages,      \* number of add_entry_from_context calls so far
    before,      \* SearchIndex._entries as the call in progress found it
    content,     \* the events delivered to the parser being fed, in order
    titlesets,   \* per section of the parser being fed: how often handle_data set its title
    ret,         \* what the last generate_search_index call returned or raised
    logged,      \* the log records the last generate_search_index call emitted
    proc,        \* what the external process did in the last call
    lib,         \* what the embedded library did in the last call
    lastop       \* the operation that made the last step

vars == <<config, haslunrpy, entries, pc, page, page_title, parser, i, npages,
          before, content, titlesets, ret, logged, proc, lib, lastop>>

---------------------------------------------------------------------------
(* Bounds *)

MaxPages == 2
MaxSegEvents == 4
MaxTextLen == 3

---------------------------------------------------------------------------
(* Python values *)

None == <<"<None>">>

\* Python truthiness of an Optional[str]
Truthy(s) == s # None /\ s # <<>>

\* Characters of a text.  "x" is an ordinary character; FS is U+001C, which
\* str.isspace() accepts and the class [ \t\n\r\f\v] does not contain.
SP == "SP"
TAB == "TAB"
LF == "LF"
CR == "CR"
FF == "FF"
VT == "VT"
NBSP == "NBSP"
FS == "FS"

\* the sequences over S of at most n elements
SeqsUpTo(S, n) == UNION {[1..k -> S] : k \in 0..n}

Chars == {"x", SP, TAB, LF, CR, FF, VT, NBSP, FS}

\* the characters matched by the pattern [ \t\n\r\f\v] of _add_entry
ReClass == {SP, TAB, LF, CR, FF, VT}

\* the characters str.strip() removes: those for which str.isspace() holds
IsSpace(c) == c \in ReClass \cup {NBSP, FS}

\* sep.join(parts)
RECURSIVE Join(_, _)
Join(parts, sep) ==
    IF parts = <<>> THEN <<>>
    ELSE IF Len(parts) = 1 THEN parts[1]
    ELSE parts[1] \o sep \o Join(Tail(parts), sep)

\* s.replace(old, new) for single characters
Replace(s, old, new) == [k \in 1..Len(s) |-> IF s[k] = old THEN new ELSE s[k]]

RECURSIVE LStrip(_)
LStrip(s) == IF s # <<>> /\ IsSpace(s[1]) THEN LStrip(Tail(s)) ELSE s

RECURSIVE RStripSpace(_)
RStripSpace(s) ==
    IF s # <<>> /\ IsSpace(s[Len(s)]) THEN RStripSpace(SubSeq(s, 1, Len(s) - 1)) ELSE s

\* s.strip()
Strip(s) == RStripSpace(LStrip(s))

\* s.rstrip('\n')
RECURSIVE RStripLF(_)
RStripLF(s) ==
    IF s # <<>> /\ s[Len(s)] = LF THEN RStripLF(SubSeq(s, 1, Len(s) - 1)) ELSE s

\* re.sub(r'[ \t\n\r\f\v]+', ' ', s): every maximal run of class characters
\* becomes one space
RECURSIVE ReSubSpace(_)
ReSubSpace(s) ==
    IF s = <<>> THEN <<>>
    ELSE IF s[1] \in ReClass
         THEN IF Len(s) > 1 /\ s[2] \in ReClass
              THEN ReSubSpace(Tail(s))
              ELSE <<SP>> \o ReSubSpace(Tail(s))
         ELSE <<s[1]>> \o ReSubSpace(Tail(s))

---------------------------------------------------------------------------
(* ContentSection and ContentParser *)

_HEADER_TAGS == {"h1", "h2", "h3", "h4", "h5", "h6"}

ContentSection == [text |-> <<>>, id |-> None, title |-> None]

\* ContentParser.__init__; section is 0 for None, else the position in data of
\* the object self.section refers to
ContentParserInit ==
    [data |-> <<>>, section |-> 0, is_header_tag |-> FALSE, stripped |-> <<>>]

\* the for loop over attrs of handle_starttag: the last id attribute wins
RECURSIVE IdOf(_, _)
IdOf(attrs, cur) ==
    IF attrs = <<>> THEN cur
    ELSE IdOf(Tail(attrs), IF attrs[1][1] = "id" THEN attrs[1][2] ELSE cur)

\* handle_starttag raising the flag before it looks at the tag
handle_starttag_flag_first(p, tag, attrs) ==
    IF tag \notin _HEADER_TAGS THEN [p EXCEPT !.is_header_tag = TRUE]
    ELSE [p EXCEPT !.is_header_tag = TRUE,
                   !.data = Append(p.data, [ContentSection EXCEPT !.id = IdOf(attrs, None)]),
                   !.section = Len(p.data) + 1]

handle_starttag(p, tag, attrs) ==
    IF tag \notin _HEADER_TAGS THEN p
    ELSE [p EXCEPT !.is_header_tag = TRUE,
                   !.data = Append(p.data, [ContentSection EXCEPT !.id = IdOf(attrs, None)]),
                   !.section = Len(p.data) + 1]

\* handle_endtag closing the current section along with the heading
handle_endtag_closing(p, tag) ==
    IF tag \notin _HEADER_TAGS THEN p
    ELSE [p EXCEPT !.is_header_tag = FALSE, !.section = 0]

handle_endtag(p, tag) ==
    IF tag \notin _HEADER_TAGS THEN p
    ELSE [p EXCEPT !.is_header_tag = FALSE]

\* handle_data returning before the fragment is recorded when no section is current
handle_data_return_first(p, d) ==
    IF p.section = 0 THEN p
    ELSE LET q == [p EXCEPT !.stripped = Append(p.stripped, d)] IN
         IF p.is_header_tag
         THEN [q EXCEPT !.data[p.section].title = d]
         ELSE [q EXCEPT !.data[p.section].text = Append(@, RStripLF(d))]

handle_data(p, d) ==
    LET q == [p EXCEPT !.stripped = Append(p.stripped, d)] IN
    IF p.section = 0 THEN q
    ELSE IF p.is_header_tag
         THEN [q EXCEPT !.data[p.section].title = d]
         ELSE [q EXCEPT !.data[p.section].text = Append(@, RStripLF(d))]

\* the stripped_html property
stripped_html(p) == Join(p.stripped, <<LF>>)

\* one callback of the parser for one event of the markup
Dispatch(p, ev) ==
    IF ev.kind = "start" THEN handle_starttag(p, ev.tag, ev.attrs)
    ELSE IF ev.kind = "end" THEN handle_endtag(p, ev.tag)
    ELSE handle_data(p, ev.data)

\* parser.feed(content); parser.close(): the callbacks in document order
RECURSIVE Feed(_, _)
Feed(p, evs) == IF evs = <<>> THEN p ELSE Feed(Dispatch(p, Head(evs)), Tail(evs))

---------------------------------------------------------------------------
(* The pages the environment supplies *)

\* heading ids: absent, two that occur in tables of contents, one that occurs in none
IdA == <<"a">>
IdB == <<"b">>
IdC == <<"c">>

TocNode(id, title, url, children) ==
    [id |-> id, title |-> title, url |-> url, children |-> children]

\* a nested table of contents in which id b occurs twice
TocNested ==
    << TocNode(IdA, <<"A">>, <<"#a">>, << TocNode(IdB, <<"B1">>, <<"#b1">>, <<>>) >>),
       TocNode(IdB, <<"B2">>, <<"#b2">>, <<>>) >>

\* a flat table of contents without id a
TocFlat == << TocNode(IdB, <<"B">>, <<"#b">>, <<>>) >>

Tocs == {TocNested, TocFlat}

Titles == {None, <<"T">>}

\* page.ancestors, nearest parent first
AncestorLists == {<<>>, << [title |-> <<"P">>], [title |-> <<"G">>] >>}

Urls == {<<"/x/">>}

\* attribute lists of a heading start tag
HeadAttrs ==
    { <<>>,
      << <<"id", IdA>> >>,
      << <<"id", IdB>> >>,
      << <<"class", <<"k">>>>, <<"id", IdA>>, <<"id", IdC>> >> }

\* text fragments of handle_data (never empty)
Frags ==
    { <<"x">>,
      <<LF>>,
      <<NBSP, "x", TAB, SP, "x", LF>>,
      <<SP, CR, "x", FF, VT, FS, NBSP>> }

StartEv(tag, attrs) == [kind |-> "start", tag |-> tag, attrs |-> attrs, data |-> <<>>]
EndEv(tag) == [kind |-> "end", tag |-> tag, attrs |-> <<>>, data |-> <<>>]
DataEv(d) == [kind |-> "data", tag |-> "", attrs |-> <<>>, data |-> d]

HeadStartEvents == {StartEv("h2", a) : a \in HeadAttrs}
OtherStartEvents == {StartEv("p", <<>>)}
OtherEndEvents == {EndEv("p")}
HeadEndEvents == {EndEv("h2"), EndEv("h1")}
DataEvents == {DataEv(d) : d \in Frags}

FragPre == <<SP, CR, "x", FF, VT, FS, NBSP>>
FragBody == <<NBSP, "x", TAB, SP, "x", LF>>
H(attrs) == StartEv("h2", attrs)

\* <p>..</p>..               no heading
DocPlain == << StartEv("p", <<>>), DataEv(FragBody), EndEv("p"), DataEv(FragPre) >>

\* ..<h2 id="a">x</h2><p>..</p>      text before the first heading
DocIntro ==
    << DataEv(FragPre), H(<< <<"id", IdA>> >>), DataEv(<<"x">>), EndEv("h2"),
       StartEv("p", <<>>), DataEv(FragBody), EndEv("p") >>

\* <h2>x</h2>..<h2 id="b">x</h2>..   the first heading has no id
DocNoId ==
    << H(<<>>), DataEv(<<"x">>), EndEv("h2"), DataEv(<<LF>>),
       H(<< <<"id", IdB>> >>), DataEv(<<"x">>), EndEv("h2"), DataEv(FragBody), DataEv(FragPre) >>

\* <h2 id="a">x</h2>..<h2 id="b">x</h2>..
DocTwo ==
    << H(<< <<"id", IdA>> >>), DataEv(<<"x">>), EndEv("h2"), DataEv(FragBody),
       H(<< <<"id", IdB>> >>), DataEv(<<"x">>), EndEv("h2"), DataEv(<<LF>>) >>

\* <h2 id="b">..<h2 class="k" id="a" id="c">x..   headings left open
DocOpen ==
    << H(<< <<"id", IdB>> >>), DataEv(FragBody),
       H(<< <<"class", <<"k">>>>, <<"id", IdA>>, <<"id", IdC>> >>), DataEv(<<"x">>),
       EndEv("p"), DataEv(FragPre) >>

Contents == {<<>>, DocPlain, DocIntro, DocNoId, DocTwo, DocOpen}

Pages ==
    [title : Titles, ancestors : AncestorLists, url : Urls, toc : Tocs, content : Contents]

NoPage == [title |-> None, ancestors |-> <<>>, url |-> <<>>, toc |-> <<>>, content |-> <<>>]

---------------------------------------------------------------------------
(* SearchIndex *)

Indexings == {"full", "sections", "titles"}

\* _find_toc_by_id looking through the following siblings before the children
RECURSIVE _find_toc_by_id_siblings_first(_, _)
_find_toc_by_id_siblings_first(toc, id_) ==
    IF toc = <<>> THEN <<>>
    ELSE LET toc_item == Head(toc) IN
         IF toc_item.id = id_ THEN <<toc_item>>
         ELSE LET toc_item_r == _find_toc_by_id_siblings_first(Tail(toc), id_) IN
              IF toc_item_r # <<>> THEN toc_item_r
              ELSE _find_toc_by_id_siblings_first(toc_item.children, id_)

\* _find_toc_by_id: << >> for None, else <<toc_item>>
RECURSIVE _find_toc_by_id(_, _)
_find_toc_by_id(toc, id_) ==
    IF toc = <<>> THEN <<>>
    ELSE LET toc_item == Head(toc) IN
         IF toc_item.id = id_ THEN <<toc_item>>
         ELSE LET toc_item_r == _find_toc_by_id(toc_item.children, id_) IN
              IF toc_item_r # <<>> THEN toc_item_r
              ELSE _find_toc_by_id(Tail(toc), id_)

\* _add_entry without text.strip()
NormalizeTextNoStrip(text) == ReSubSpace(Replace(text, NBSP, SP))

\* the text _add_entry stores
NormalizeText(text) == ReSubSpace(Strip(Replace(text, NBSP, SP)))

\* _add_entry leaving out an entry whose normalised text is empty
_add_entry_skipping_empty(es, title, text, loc) ==
    IF NormalizeText(text) = <<>> THEN es
    ELSE Append(es, [title |-> title, text |-> NormalizeText(text), location |-> loc])

\* _add_entry putting the new entry in front: insert(0, ...) instead of append
_add_entry_at_front(es, title, text, loc) ==
    <<[title |-> title, text |-> NormalizeText(text), location |-> loc]>> \o es

\* _add_entry leaving out an entry whose location is already in the store
_add_entry_unless_located(es, title, text, loc) ==
    IF \E k \in 1..Len(es) : es[k].location = loc THEN es
    ELSE Append(es, [title |-> title, text |-> NormalizeText(text), location |-> loc])

\* _add_entry: the store after the append
_add_entry(es, title, text, loc) ==
    Append(es, [title |-> title, text |-> NormalizeText(text), location |-> loc])

\* title_parts built with append instead of insert(0, ...)
RECURSIVE AppendAncestors(_, _)
AppendAncestors(parts, ancestors) ==
    IF ancestors = <<>> THEN parts
    ELSE AppendAncestors(parts \o <<Head(ancestors).title>>, Tail(ancestors))

\* title_parts and page_title of add_entry_from_context
RECURSIVE InsertAncestors(_, _)
InsertAncestors(parts, ancestors) ==
    IF ancestors = <<>> THEN parts
    ELSE InsertAncestors(<<Head(ancestors).title>> \o parts, Tail(ancestors))

ComposeTitle(cfg, pg) ==
    LET own == IF Truthy(pg.title) THEN <<pg.title>> ELSE <<>>
        title_parts == IF cfg.full_path_in_title THEN InsertAncestors(own, pg.ancestors) ELSE own
    IN Join(title_parts, <<" / ">>)

\* the page text kept whenever sections are indexed
PageTextWhenSections(cfg, p) ==
    IF cfg.indexing \in {"full", "sections"} THEN RStripLF(stripped_html(p)) ELSE <<>>

\* the text of the page-level entry before _add_entry normalises it
PageText(cfg, p) == IF cfg.indexing = "full" THEN RStripLF(stripped_html(p)) ELSE <<>>

\* the page title passed for every section, not only the first
SectionTitleArgEvery(cfg, k, pt) == IF cfg.full_path_in_title THEN pt ELSE None

\* the composed title handed to the first two sections: i <= 1 for i == 0
SectionTitleArgFirstTwo(cfg, k, pt) == IF cfg.full_path_in_title /\ k <= 1 THEN pt ELSE None

\* the title argument the loop passes for the section at 0-based position k
SectionTitleArg(cfg, k, pt) == IF cfg.full_path_in_title /\ k = 0 THEN pt ELSE None

\* the title create_entry_for_section stores: title or toc_item.title
EntryTitle(title, toc_item) == IF Truthy(title) THEN title ELSE toc_item.title

\* create_entry_for_section falling back to the page URL when no ToC item matches
create_entry_for_section_unmatched(es, cfg, section, toc, abs_url, title) ==
    LET toc_item == _find_toc_by_id(toc, section.id)
        text == IF cfg.indexing = "full" THEN Join(section.text, <<SP>>) ELSE <<>>
    IN IF toc_item # <<>>
       THEN _add_entry(es, EntryTitle(title, toc_item[1]), text, abs_url \o toc_item[1].url)
       ELSE _add_entry(es, title, text, abs_url)

\* create_entry_for_section: the store after the call
create_entry_for_section(es, cfg, section, toc, abs_url, title) ==
    LET toc_item == _find_toc_by_id(toc, section.id)
        text == IF cfg.indexing = "full" THEN Join(section.text, <<SP>>) ELSE <<>>
    IN IF toc_item # <<>>
       THEN _add_entry(es, EntryTitle(title, toc_item[1]), text, abs_url \o toc_item[1].url)
       ELSE es

---------------------------------------------------------------------------
(* json.dumps, json.loads and the pre-build collaborators *)

\* A configuration value is natively serialisable or not; str(value) of one
\* that is not is the pair <<"str", value>>.
LangValues == {[native |-> TRUE, value |-> <<"en">>], [native |-> FALSE, value |-> <<"en">>]}

PrebuildValues == {"True", "node", "python", "False"}

\* the payload of a call that raised
NoData == <<>>

\* an entry as json.dumps writes it: keys sorted
DumpEntry(e) == << <<"location", e.location>>, <<"text", e.text>>, <<"title", e.title>> >>

DumpDocs(es) == [k \in 1..Len(es) |-> DumpEntry(es[k])]

\* the config object as json.dumps writes it: keys sorted; a value that is
\* not natively serialisable goes through default
DumpConfig(cfg) ==
    << <<"full_path_in_title", cfg.full_path_in_title>>,
       <<"indexing", cfg.indexing>>,
       <<"lang", IF cfg.lang.native THEN cfg.lang.value ELSE <<"str", cfg.lang.value>> >>,
       <<"prebuild_index", cfg.prebuild_index>> >>

\* page_dicts is a sequence of <<key, value>> in insertion order
PageDicts(es, cfg) == << <<"docs", es>>, <<"config", cfg>> >>

Value(d, key) == (CHOOSE k \in 1..Len(d) : d[k][1] = key) 

HasKey(d, key) == \E k \in 1..Len(d) : d[k][1] = key

\* json.dumps(page_dicts, sort_keys=True, separators=(',', ':'), default=...):
\* raised is "TypeError" when a value is not serialisable and no default is given
JsonDumps(d, has_default) ==
    LET cfg == d[Value(d, "config")][2]
        docs == d[Value(d, "docs")][2]
        body == << <<"config", DumpConfig(cfg)>>, <<"docs", DumpDocs(docs)>> >>
                \o (IF HasKey(d, "index") THEN << <<"index", d[Value(d, "index")][2]>> >> ELSE <<>>)
    IN IF ~cfg.lang.native /\ ~has_default
       THEN [raised |-> "TypeError", data |-> NoData]
       ELSE [raised |-> "", data |-> body]

\* what the child process wrote to its output stream
ProcOutputs == {"{}", "", "Segmentation fault"}

\* json.loads(idx): raises ValueError unless idx is a JSON text
JsonLoads(idx) ==
    IF idx = "{}" THEN [raised |-> "", value |-> <<"object">>]
    ELSE [raised |-> "ValueError", value |-> <<>>]

\* subprocess.Popen and p.communicate: the spawn fails with OSError, or the
\* process runs and ends with an exit status, an output and an error stream
NoProc == [spawn |-> "none", exit |-> 0, out |-> "", err |-> ""]

ProcOutcomes ==
    {[spawn |-> "OSError", exit |-> 0, out |-> "", err |-> ""]}
    \cup [spawn : {"ok"}, exit : {0, 1}, out : ProcOutputs, err : {"", "Error: boom"}]

\* lunr(...): returns an index, or raises
LibOutcomes == {"ok", "raises"}

\* an except clause that names OSError alone
CaughtOSErrorOnly(exc) == exc = "OSError"

\* the except clause of the external-process branch: except (OSError, ValueError)
Caught(exc) == exc \in {"OSError", "ValueError"}

\* the embedded-library branch entered without the test
UseLibraryUntested(has) == TRUE

\* the test of the embedded-library branch: if haslunrpy
UseLibrary(has) == has

\* generate_search_index with the child process doing o and the library doing l:
\* what the call returns (or raises), logs, and what it ran
GenerateResult(es, cfg, has, o, l) ==
    LET page_dicts == PageDicts(es, cfg)
        base == JsonDumps(page_dicts, TRUE)
        fallback == [ret |-> base, logged |-> <<"warning">>]
        escapes(exc) == [ret |-> [raised |-> exc, data |-> NoData], logged |-> <<>>]
        handled(exc) == IF Caught(exc) THEN fallback ELSE escapes(exc)
    IN IF cfg.prebuild_index \in {"True", "node"}
       THEN [proc |-> o, lib |-> "notcalled"] @@
            (IF o.spawn # "ok" THEN handled(o.spawn)
             ELSE IF o.err = ""
                  THEN LET parsed == JsonLoads(o.out) IN
                       IF parsed.raised # "" THEN handled(parsed.raised)
                       ELSE LET again == JsonDumps(Append(page_dicts, <<"index", parsed.value>>), FALSE)
                            IN IF again.raised # "" THEN handled(again.raised)
                               ELSE [ret |-> again, logged |-> <<"debug">>]
                  ELSE fallback)
       ELSE IF cfg.prebuild_index = "python"
            THEN IF UseLibrary(has)
                 THEN [proc |-> NoProc, lib |-> l] @@
                      (IF l = "raises" THEN escapes("LibraryError")
                       ELSE [ret |-> JsonDumps(Append(page_dicts, <<"index", <<"lunr">>>>), FALSE),
                             logged |-> <<>>])
                 ELSE [proc |-> NoProc, lib |-> "notcalled"] @@ fallback
            ELSE [proc |-> NoProc, lib |-> "notcalled", ret |-> base, logged |-> <<>>]

---------------------------------------------------------------------------
(* The state machine *)

Configs ==
    [indexing : Indexings, full_path_in_title : BOOLEAN, lang : LangValues,
     prebuild_index : PrebuildValues]

NoRet == [raised |-> "", data |-> NoData]

\* SearchIndex(**config) with config in C, nothing called yet
Constructed(C, at) ==
    /\ config \in C
    /\ entries = <<>>
    /\ pc = at
    /\ page = NoPage
    /\ page_title = <<>>
    /\ parser = ContentParserInit
    /\ i = 0
    /\ npages = 0
    /\ before = <<>>
    /\ content = <<>>
    /\ titlesets = <<>>
    /\ ret = NoRet
    /\ logged = <<>>
    /\ proc = NoProc
    /\ lib = "notcalled"
    /\ lastop = "init"

\* every indexing and title setting; pre-build off
Init ==
    /\ Constructed({c \in Configs : c.prebuild_index = "False" /\ c.lang.native}, "idle")
    /\ haslunrpy = TRUE

\* every pre-build setting; page entries only
InitGen ==
    /\ Constructed({c \in Configs : c.indexing = "titles" /\ ~c.full_path_in_title}, "idle")
    /\ haslunrpy \in BOOLEAN

\* a ContentParser about to be fed
InitSeg ==
    /\ Constructed({c \in Configs : c.indexing = "full" /\ ~c.full_path_in_title
                                      /\ c.prebuild_index = "False" /\ c.lang.native},
                   "feed")
    /\ haslunrpy = TRUE

\* add_entry_from_context(pg) up to the page-level entry
AddEntryFromContext ==
    /\ pc = "idle"
    /\ npages < MaxPages
    /\ \E pg \in Pages :
         LET p == Feed(ContentParserInit, pg.content)
             pt == ComposeTitle(config, pg)
         IN /\ page' = pg
            /\ page_title' = pt
            /\ parser' = p
            /\ entries' = _add_entry(entries, pt, PageText(config, p), pg.url)
    /\ pc' = IF config.indexing \in {"full", "sections"} THEN "sections" ELSE "return"
    /\ i' = 0
    /\ npages' = npages + 1
    /\ before' = entries
    /\ lastop' = "add"
    /\ UNCHANGED <<config, haslunrpy, content, titlesets, ret, logged, proc, lib>>

\* one iteration of the loop over enumerate(parser.data)
CreateEntryForSection ==
    /\ pc = "sections"
    /\ i < Len(parser.data)
    /\ entries' = create_entry_for_section(entries, config, parser.data[i + 1], page.toc,
                                           page.url, SectionTitleArg(config, i, page_title))
    /\ i' = i + 1
    /\ lastop' = "section"
    /\ UNCHANGED <<config, haslunrpy, pc, page, page_title, parser, npages, before,
                   content, titlesets, ret, logged, proc, lib>>

\* the end of add_entry_from_context: its locals are gone
Return ==
    /\ \/ pc = "return"
       \/ pc = "sections" /\ i = Len(parser.data)
    /\ pc' = "idle"
    /\ page' = NoPage
    /\ page_title' = <<>>
    /\ parser' = ContentParserInit
    /\ i' = 0
    /\ before' = <<>>
    /\ lastop' = "return"
    /\ UNCHANGED <<config, haslunrpy, entries, npages, content, titlesets, ret, logged,
                   proc, lib>>

\* how a generate_search_index call is recorded: the first one, one that
\* directly follows another, or one made after pages were added to a store
\* that had already been serialised
GeneratedOp ==
    IF lastop \in {"generate", "generate_again", "generate_after_add"} THEN "generate_again"
    ELSE IF ret # NoRet THEN "generate_after_add"
    ELSE "generate"

\* generate_search_index listing the newest entry first by reversing the
\* store in place
GenerateSearchIndexReversing ==
    /\ pc = "idle"
    /\ \E o \in ProcOutcomes, l \in LibOutcomes :
         LET r == GenerateResult(entries, config, haslunrpy, o, l)
         IN /\ ret' = r.ret
            /\ logged' = r.logged
            /\ proc' = r.proc
            /\ lib' = r.lib
    /\ entries' = [k \in 1..Len(entries) |-> entries[Len(entries) + 1 - k]]
    /\ lastop' = GeneratedOp
    /\ UNCHANGED <<config, haslunrpy, pc, page, page_title, parser, i, npages,
                   before, content, titlesets>>

\* generate_search_index emptying the entry store once it is serialised
GenerateSearchIndexAndReset ==
    /\ pc = "idle"
    /\ \E o \in ProcOutcomes, l \in LibOutcomes :
         LET r == GenerateResult(entries, config, haslunrpy, o, l)
         IN /\ ret' = r.ret
            /\ logged' = r.logged
            /\ proc' = r.proc
            /\ lib' = r.lib
    /\ entries' = <<>>
    /\ lastop' = GeneratedOp
    /\ UNCHANGED <<config, haslunrpy, pc, page, page_title, parser, i, npages,
                   before, content, titlesets>>

GenerateSearchIndex ==
    /\ pc = "idle"
    /\ \E o \in ProcOutcomes, l \in LibOutcomes :
         LET r == GenerateResult(entries, config, haslunrpy, o, l)
         IN /\ ret' = r.ret
            /\ logged' = r.logged
            /\ proc' = r.proc
            /\ lib' = r.lib
    /\ lastop' = GeneratedOp
    /\ UNCHANGED <<config, haslunrpy, entries, pc, page, page_title, parser, i, npages,
                   before, content, titlesets>>

\* the parser's callbacks, one per event of the markup fed to it
Fed(ev) ==
    /\ pc = "feed"
    /\ Len(content) < MaxSegEvents
    /\ parser' = Dispatch(parser, ev)
    /\ content' = Append(content, ev)
    /\ lastop' = "feed"
    /\ UNCHANGED <<config, haslunrpy, entries, pc, page, page_title, i, npages, before,
                   ret, logged, proc, lib>>

HandleStarttag ==
    \E ev \in HeadStartEvents \cup OtherStartEvents :
        /\ Fed(ev)
        /\ titlesets' = IF ev.tag \in _HEADER_TAGS THEN Append(titlesets, 0) ELSE titlesets

HandleEndtag ==
    \E ev \in HeadEndEvents \cup OtherEndEvents :
        /\ Fed(ev)
        /\ UNCHANGED titlesets

HandleData ==
    \E ev \in DataEvents :
        /\ Fed(ev)
        /\ titlesets' = IF parser.section # 0 /\ parser.is_header_tag
                         THEN [titlesets EXCEPT ![parser.section] = @ + 1]
                         ELSE titlesets

Next == AddEntryFromContext \/ CreateEntryForSection \/ Return

Spec == Init /\ [][Next]_vars

\* with indexing neither 'full' nor 'sections' the loop over the sections is
\* never entered
NextGen == AddEntryFromContext \/ Return \/ GenerateSearchIndex

SpecGen == InitGen /\ [][NextGen]_vars

NextSeg == HandleStarttag \/ HandleEndtag \/ HandleData

SpecSeg == InitSeg /\ [][NextSeg]_vars

---------------------------------------------------------------------------
(* Properties *)

\* the ids of all nodes of a table of contents
RECURSIVE TocIds(_)
TocIds(toc) ==
    IF toc = <<>> THEN {}
    ELSE {Head(toc).id} \cup TocIds(Head(toc).children) \cup TocIds(Tail(toc))

\* the loop of add_entry_from_context is about to handle the section at i
AtSection == pc = "sections" /\ i < Len(parser.data)

CurSection == parser.data[i + 1]

CleanText(t) ==
    /\ \A k \in 1..Len(t) : t[k] \notin {TAB, LF, CR, FF, VT, NBSP}
    /\ \A k \in 1..Len(t) - 1 : ~(t[k] = SP /\ t[k + 1] = SP)
    /\ t # <<>> => ~IsSpace(t[1]) /\ ~IsSpace(t[Len(t)])

\* C1: every stored entry's text has no tab, newline, carriage return, form
\* feed, vertical tab or non-breaking space, no run of two or more spaces and
\* no leading or trailing whitespace.
C1_EntryTextNormalized ==
    /\ \A k \in 1..Len(entries) : CleanText(entries[k].text)
    /\ entries = <<>> =>
         \A t \in SeqsUpTo(Chars, MaxTextLen) : CleanText(_add_entry(entries, None, t, <<>>)[1].text)

\* a page entry and a section entry built from text with leading, trailing and
\* inner whitespace of every kind
C1_Witness ==
    /\ config.indexing = "full"
    /\ pc = "sections" /\ i = 1 /\ page.content = DocIntro /\ Len(entries) = 2
    /\ entries[1].text = <<"x", SP, FS, SP, "x", SP, "x", SP, "x">>
    /\ entries[2].text = <<"x", SP, "x">>

\* C2: a create_entry_for_section call for a section whose heading id (absent
\* ids included) is the id of no node of the table of contents leaves the
\* entry store unchanged, whatever the indexing and full_path_in_title settings.
C2_UnresolvedSectionDropped ==
    [][(AtSection /\ CurSection.id \notin TocIds(page.toc)) =>
         /\ entries' = entries
         /\ \A c \in Configs, t \in {None, page_title} :
               create_entry_for_section(entries, c, CurSection, page.toc, page.url, t) = entries]_vars

\* the loop has passed a first section whose id, not absent, is in no ToC node
C2_Witness ==
    /\ pc = "sections" /\ i = 1 /\ npages = 1
    /\ parser.data[1].id # None
    /\ parser.data[1].id \notin TocIds(page.toc)
    /\ Len(entries) = 1

\* C3: with indexing = 'sections' every stored entry has the empty text, and
\* every section whose id resolves in the table of contents still gets an entry.
C3_SectionsIndexingEmptyText ==
    [][config.indexing = "sections" =>
         /\ \A k \in 1..Len(entries') : entries'[k].text = <<>>
         /\ (AtSection /\ CurSection.id \in TocIds(page.toc)) =>
               Len(entries') = Len(entries) + 1]_vars

\* two section entries emitted, with empty text, for sections that have text
C3_Witness ==
    /\ config.indexing = "sections"
    /\ pc = "sections" /\ i = 2 /\ page.content = DocTwo
    /\ parser.data[1].text # <<>>
    /\ Len(entries) = 3
    /\ entries[2].text = <<>> /\ entries[3].text = <<>>

IsHeadStart(ev) == ev.kind = "start" /\ ev.tag \in _HEADER_TAGS

\* the text-data fragments of an event stream, each followed by a newline
RECURSIVE DataLines(_)
DataLines(evs) ==
    IF evs = <<>> THEN <<>>
    ELSE (IF Head(evs).kind = "data" THEN Head(evs).data \o <<LF>> ELSE <<>>)
         \o DataLines(Tail(evs))

\* the fragments joined by single newlines: no newline after the last one
JoinedData(evs) ==
    LET lines == DataLines(evs) IN
    IF lines = <<>> THEN <<>> ELSE SubSeq(lines, 1, Len(lines) - 1)

\* C4: after an event stream without a heading start tag, stray heading end
\* tags or not, the section sequence is empty and the stripped page text is
\* the text-data fragments, in order, joined by single newlines.
C4_NoHeadingNoSections ==
    (\A k \in 1..Len(content) : ~IsHeadStart(content[k])) =>
        /\ parser.data = <<>>
        /\ stripped_html(parser) = JoinedData(content)

\* two fragments around a stray heading end tag, and no heading start
C4_Witness ==
    /\ pc = "feed"
    /\ Len(content) = 3
    /\ content[1].kind = "data" /\ content[2] = EndEv("h2") /\ content[3].kind = "data"
    /\ parser.data = <<>>
    /\ Len(stripped_html(parser)) > Len(content[1].data) + Len(content[3].data)

Generated == lastop \in {"generate", "generate_again", "generate_after_add"}

NodeStrategy == config.prebuild_index \in {"True", "node"}

PrebuildDisabled == config.prebuild_index \notin {"True", "node", "python"}

\* the uncompiled payload of the store and the configuration
Uncompiled == JsonDumps(PageDicts(entries, config), TRUE).data

\* C5: with pre-build disabled, a generate_search_index call that follows
\* another with no add in between returns the payload the first returned.
C5_GenerateTwiceIdentical ==
    [][(lastop' = "generate_again" /\ PrebuildDisabled) => ret' = ret]_vars

\* a second call in a row on a store of several entries
C5_Witness ==
    /\ lastop = "generate_again" /\ PrebuildDisabled
    /\ Len(entries) >= 2
    /\ ret.raised = "" /\ HasKey(ret.data, "docs")

\* the child process failed: spawn error, non-empty error stream, or output
\* that is no JSON text
ProcFailed ==
    \/ proc.spawn = "OSError"
    \/ proc.spawn = "ok" /\ proc.err # ""
    \/ proc.spawn = "ok" /\ proc.out # "{}"

\* C6: with prebuild_index True or 'node', when the child process fails the
\* call returns the uncompiled payload, which has no index key, and logs a warning.
C6_NodeFailureFallsBack ==
    (Generated /\ NodeStrategy /\ ProcFailed) =>
        /\ ret.raised = ""
        /\ ~HasKey(ret.data, "index")
        /\ ret.data = Uncompiled
        /\ logged = <<"warning">>

\* a child process whose error stream is empty and whose output is no JSON text
C6_Witness ==
    /\ Generated /\ NodeStrategy /\ entries # <<>>
    /\ proc.spawn = "ok" /\ proc.err = "" /\ proc.out = "Segmentation fault"
    /\ HasKey(ret.data, "docs")

\* C7: with prebuild_index 'python' and the library unavailable, the call does
\* not call the library, logs a warning and returns the uncompiled payload,
\* which has no index key.
C7_PythonUnavailableFallsBack ==
    (Generated /\ config.prebuild_index = "python" /\ ~haslunrpy) =>
        /\ lib = "notcalled"
        /\ logged = <<"warning">>
        /\ ret.raised = ""
        /\ ~HasKey(ret.data, "index")
        /\ ret.data = Uncompiled

C7_Witness ==
    /\ Generated /\ config.prebuild_index = "python" /\ ~haslunrpy
    /\ entries # <<>> /\ HasKey(ret.data, "docs")

\* C8: no exception escapes generate_search_index: every call returns a
\* payload that holds the entry list.
C8_NoExceptionEscapes ==
    Generated => ret.raised = "" /\ HasKey(ret.data, "docs")

\* C9: the returned payload has an index field only if pre-build is enabled
\* and succeeded; under the external-process strategy only if the process
\* exited cleanly with an empty error stream and output that parses as JSON.
C9_IndexOnlyOnCleanSuccess ==
    (Generated /\ ret.raised = "" /\ HasKey(ret.data, "index")) =>
        /\ ~PrebuildDisabled
        /\ NodeStrategy =>
              proc.spawn = "ok" /\ proc.exit = 0 /\ proc.err = "" /\ proc.out = "{}"

\* the table-of-contents node the section at i resolves to
CurTocItem == _find_toc_by_id(page.toc, CurSection.id)[1]

\* the loop step that handles the section at i emits an entry
EmitsEntry == AtSection /\ Len(entries') = Len(entries) + 1

\* C10 as amended: an emitted section entry's title is the composed page title
\* when the section is the first of the page, full_path_in_title is enabled
\* and the composed title is not empty; otherwise the ToC node's own title.
C10_SectionTitleUnlessEmpty ==
    [][EmitsEntry =>
         entries'[Len(entries')].title =
            IF i = 0 /\ config.full_path_in_title /\ page_title # <<>>
            THEN page_title ELSE CurTocItem.title]_vars

\* C10 as claimed: the composed page title also when it is empty
C10_SectionTitleAsClaimed ==
    [][EmitsEntry =>
         entries'[Len(entries')].title =
            IF i = 0 /\ config.full_path_in_title
            THEN page_title ELSE CurTocItem.title]_vars

\* a first section emitted under the composed title and a second under its
\* ToC node's title
C10_Witness ==
    /\ config.full_path_in_title
    /\ pc = "sections" /\ i = 2 /\ npages = 1 /\ Len(entries) = 3
    /\ page.ancestors # <<>>
    /\ entries[2].title = page_title
    /\ entries[3].title = <<"B1">>

---------------------------------------------------------------------------
(* The title of the page-level entry *)

Reverse(s) == [k \in 1..Len(s) |-> s[Len(s) + 1 - k]]

AncestorTitles(pg) == [k \in 1..Len(pg.ancestors) |-> pg.ancestors[k].title]

OwnTitle(pg) == IF pg.title = None THEN <<>> ELSE <<pg.title>>

\* the entry the call in progress appended first
PageEntry == entries[Len(before) + 1]

InCall == pc \in {"sections", "return"}

\* C11: the page-level entry's title is the page's own title (left out when
\* the page has none), preceded, only when full_path_in_title is on, by the
\* titles of all its ancestors in the reverse of page.ancestors, all joined
\* with ' / '; with the option off no ancestor title is part of it, and a
\* page without a title then gets the empty title.
C11_PageTitleComposed ==
    InCall =>
        /\ PageEntry.title = page_title
        /\ config.full_path_in_title =>
               page_title = Join(Reverse(AncestorTitles(page)) \o OwnTitle(page), <<" / ">>)
        /\ ~config.full_path_in_title =>
               /\ page_title = Join(OwnTitle(page), <<" / ">>)
               /\ page.title = None => page_title = <<>>

\* a titled page two levels deep, indexed with the full path in its title
C11_Witness ==
    /\ InCall
    /\ config.full_path_in_title
    /\ page.title = <<"T">>
    /\ Len(page.ancestors) = 2
    /\ PageEntry.title = <<"G", " / ", "P", " / ", "T">>

---------------------------------------------------------------------------
(* The entries one add_entry_from_context call appends *)

\* how many of the first n segmented sections have an id found in the page's ToC
Resolved(n) == Cardinality({k \in 1..n : parser.data[k].id \in TocIds(page.toc)})

\* C12: every add_entry_from_context call appends exactly one page-level
\* entry, located at the page's URL, whose text is the normalised stripped
\* text of the whole page when indexing is 'full' and empty otherwise; with
\* indexing neither 'full' nor 'sections' that is the only entry appended,
\* and otherwise the call appends 1 + the number of segmented sections whose
\* id resolves in the page's table of contents.
C12_EntriesPerCall ==
    InCall =>
        /\ Len(entries) > Len(before)
        /\ SubSeq(entries, 1, Len(before)) = before
        /\ PageEntry.location = page.url
        /\ PageEntry.text = IF config.indexing = "full"
                            THEN NormalizeText(stripped_html(parser))
                            ELSE <<>>
        /\ (pc = "sections") = (config.indexing \in {"full", "sections"})
        /\ pc = "return" => Len(entries) = Len(before) + 1
        /\ pc = "sections" => Len(entries) = Len(before) + 1 + Resolved(i)

\* a second page with two sections, one of them resolved, fully processed
C12_Witness ==
    /\ pc = "sections"
    /\ i = Len(parser.data)
    /\ i = 2
    /\ Resolved(i) = 1
    /\ config.indexing = "full"
    /\ PageEntry.text # <<>>
    /\ before # <<>>
    /\ Len(entries) = Len(before) + 2

---------------------------------------------------------------------------
(* The table-of-contents lookup *)

MaxTocNodes == 3

\* the nodes of a ToC forest in depth-first pre-order
RECURSIVE Preorder(_)
Preorder(toc) ==
    IF toc = <<>> THEN <<>>
    ELSE <<Head(toc)>> \o Preorder(Head(toc).children) \o Preorder(Tail(toc))

\* the positions in a sequence of nodes of those with the given id
Matches(nodes, id_) == {k \in 1..Len(nodes) : nodes[k].id = id_}

FirstMatch(nodes, id_) ==
    nodes[CHOOSE k \in Matches(nodes, id_) : \A m \in Matches(nodes, id_) : k <= m]

\* every forest of n nodes with ids a or b; the nodes are numbered in
\* pre-order from start, and title and url carry the number
RECURSIVE Forest(_, _)
Forest(n, start) ==
    IF n = 0 THEN {<<>>}
    ELSE UNION {
           { <<TocNode(id_, <<ToString(start)>>, <<"#", ToString(start)>>, ch)>> \o rest :
               id_ \in {IdA, IdB}, ch \in Forest(k - 1, start + 1),
               rest \in Forest(n - k, start + k) } : k \in 1..n }

TocTrees == UNION {Forest(n, 1) : n \in 0..MaxTocNodes}

\* _find_toc_by_id on toc gives the first pre-order match, or None when there is none
FindsFirstPreorder(toc, id_) ==
    LET found == _find_toc_by_id(toc, id_)
        nodes == Preorder(toc)
    IN /\ (found = <<>>) = (Matches(nodes, id_) = {})
       /\ found # <<>> => found[1] = FirstMatch(nodes, id_)

\* C13: _find_toc_by_id returns the first node, in depth-first pre-order, whose
\* id equals the target, also when several nodes carry it, and returns None
\* exactly when no node does; every emitted section entry is located at the
\* page's URL followed by that node's url.
C13_FirstPreorderMatch ==
    /\ lastop = "init" =>
          \A toc \in TocTrees \cup Tocs, id_ \in {IdA, IdB, IdC, None} :
              FindsFirstPreorder(toc, id_)
    /\ pc = "sections" =>
          \A k \in 1..i :
              parser.data[k].id \in TocIds(page.toc) =>
                  /\ Len(entries) >= Len(before) + 1 + Resolved(k)
                  /\ entries[Len(before) + 1 + Resolved(k)].location =
                         page.url \o FirstMatch(Preorder(page.toc), parser.data[k].id).url

\* a section whose id is carried by two ToC nodes, the first of them nested
C13_Witness ==
    /\ pc = "sections"
    /\ i >= 1
    /\ page.toc = TocNested
    /\ parser.data[i].id = IdB
    /\ Cardinality(Matches(Preorder(page.toc), IdB)) = 2
    /\ entries[Len(entries)].location = <<"/x/", "#b1">>

---------------------------------------------------------------------------
(* Where the segmenter puts each text-data event *)

IsHeadEnd(ev) == ev.kind = "end" /\ ev.tag \in _HEADER_TAGS

\* positions of the heading start tags delivered before position k
StartsBefore(k) == {m \in 1..(k - 1) : IsHeadStart(content[m])}

\* the section open at position k: the number of the most recent heading
\* start, 0 before the first one
SectionAt(k) == Cardinality(StartsBefore(k))

\* position k lies inside a heading: after a heading start, with no heading
\* end tag since
InHeading(k) ==
    \E m \in StartsBefore(k) :
        \A n \in (m + 1)..(k - 1) : ~IsHeadStart(content[n]) /\ ~IsHeadEnd(content[n])

\* the fragments among the first k events that came outside a heading while
\* section n was open, with their trailing newlines removed
RECURSIVE TextOf(_, _)
TextOf(n, k) ==
    IF k = 0 THEN <<>>
    ELSE TextOf(n, k - 1) \o
         (IF content[k].kind = "data" /\ SectionAt(k) = n /\ ~InHeading(k)
          THEN <<RStripLF(content[k].data)>> ELSE <<>>)

\* every fragment among the first k events
RECURSIVE AllData(_)
AllData(k) ==
    IF k = 0 THEN <<>>
    ELSE AllData(k - 1) \o (IF content[k].kind = "data" THEN <<content[k].data>> ELSE <<>>)

\* the positions of the fragments that came inside the heading of section n
TitleData(n) ==
    {k \in 1..Len(content) : content[k].kind = "data" /\ SectionAt(k) = n /\ InHeading(k)}

\* C14: every text-data event is appended to the page-level accumulator; one
\* that comes before the first heading start goes to no section; one that
\* comes while the in-heading flag is set goes to the current section's title
\* and not to any text; any other goes, stripped of trailing newlines, to the
\* text of the most recently started section only.  So a section's text is the
\* fragments seen outside headings after its heading start and before the
\* next one, in order, and a heading end tag does not close the section.
C14_DataAttribution ==
    /\ parser.stripped = AllData(Len(content))
    /\ Len(parser.data) = SectionAt(Len(content) + 1)
    /\ \A n \in 1..Len(parser.data) :
          /\ parser.data[n].text = TextOf(n, Len(content))
          /\ TitleData(n) = {} => parser.data[n].title = None
          /\ TitleData(n) # {} =>
                parser.data[n].title =
                    content[CHOOSE k \in TitleData(n) : \A m \in TitleData(n) : m <= k].data

\* a heading with one fragment, closed, followed by a fragment that ends in a newline
C14_Witness ==
    /\ pc = "feed"
    /\ Len(content) = 4
    /\ IsHeadStart(content[1])
    /\ content[2] = DataEv(<<"x">>)
    /\ content[3] = EndEv("h2")
    /\ content[4] = DataEv(FragBody)
    /\ parser.data[1].title = <<"x">>
    /\ parser.data[1].text = << <<NBSP, "x", TAB, SP, "x">> >>
    /\ Len(parser.stripped) = 2

---------------------------------------------------------------------------
(* How often a section's title is assigned *)

\* C15: a section's title is set at most once, and only while the in-heading
\* flag is set.  handle_data assigns the title on every text-data event that
\* arrives while the flag is set, so a heading with inline markup, delivered as
\* several fragments, has its title assigned once per fragment and keeps only
\* the last one.
C15_TitleSetAtMostOnce ==
    \A n \in 1..Len(titlesets) :
        /\ titlesets[n] <= 1
        /\ titlesets[n] > 0 => TitleData(n) # {}

---------------------------------------------------------------------------
(* The order of the entry store *)

IsPrefix(s, t) == Len(s) <= Len(t) /\ SubSeq(t, 1, Len(s)) = s

\* the entries read back from a serialised payload
UndumpEntry(d) ==
    [title |-> d[Value(d, "title")][2], text |-> d[Value(d, "text")][2],
     location |-> d[Value(d, "location")][2]]

PayloadDocs(data) ==
    LET docs == data[Value(data, "docs")][2]
    IN [k \in 1..Len(docs) |-> UndumpEntry(docs[k])]

\* the ToC node the k-th segmented section of the page in progress resolves to
TocItemOf(k) == FirstMatch(Preorder(page.toc), parser.data[k].id)

\* the store during a call: what the call found, then the page-level entry,
\* then the entries of the resolved sections handled so far, in document order
StoreInOrder ==
    InCall =>
        /\ IsPrefix(before, entries)
        /\ Len(entries) > Len(before)
        /\ PageEntry.location = page.url
        /\ PageEntry.title = page_title
        /\ \A k \in 1..i :
              parser.data[k].id \in TocIds(page.toc) =>
                  LET pos == Len(before) + 1 + Resolved(k) IN
                  /\ pos <= Len(entries)
                  /\ entries[pos].location = page.url \o TocItemOf(k).url
                  /\ entries[pos].text =
                         IF config.indexing = "full"
                         THEN NormalizeText(Join(parser.data[k].text, <<SP>>))
                         ELSE <<>>

\* a payload generated now lists the store, entry by entry, in the store's order
PayloadListsStore ==
    pc = "idle" =>
        \A l \in LibOutcomes :
            LET r == GenerateResult(entries, config, haslunrpy, NoProc, l).ret
            IN r.raised = "" /\ PayloadDocs(r.data) = entries

\* C16: the entry store is append-only: every step of add_entry_from_context
\* leaves the entries already stored unchanged, as a prefix of the new store;
\* a page's page-level entry is appended before its section entries, the
\* section entries follow in document order, and pages follow one another in
\* call order; the 'docs' list of a payload generated at any point is the
\* store in that order.
C16_StoreAppendOnly ==
    /\ [](StoreInOrder /\ PayloadListsStore)
    /\ [][/\ IsPrefix(entries, entries')
          /\ lastop' = "add" => Len(entries') = Len(entries) + 1 /\ before' = entries]_vars

\* a second page whose two sections both resolved, behind the first page's entries
C16_Witness ==
    /\ pc = "sections"
    /\ i = 2 /\ Len(parser.data) = 2
    /\ Resolved(2) = 2
    /\ Len(before) >= 2
    /\ Len(entries) = Len(before) + 3
    /\ entries[Len(before) + 1].location = <<"/x/">>
    /\ entries[Len(before) + 2].location = <<"/x/", "#a">>
    /\ entries[Len(before) + 3].location = <<"/x/", "#b1">>

---------------------------------------------------------------------------
(* Independence of the pages *)

\* what add_entry_from_context, called on an empty store with parser p just
\* fed and page title pt, has stored once its loop has handled n sections
RECURSIVE FreshEntries(_, _, _, _, _)
FreshEntries(cfg, pg, p, pt, n) ==
    IF n = 0 THEN _add_entry(<<>>, pt, PageText(cfg, p), pg.url)
    ELSE create_entry_for_section(FreshEntries(cfg, pg, p, pt, n - 1), cfg, p.data[n],
                                  pg.toc, pg.url, SectionTitleArg(cfg, n - 1, pt))

\* the same call made as the first call on a new SearchIndex with the same config
FreshCall(cfg, pg, n) ==
    FreshEntries(cfg, pg, Feed(ContentParserInit, pg.content), ComposeTitle(cfg, pg), n)

\* C17: the entries a call appends for a page depend on that page and the
\* configuration only, not on the pages processed before: they are the
\* entries the same call stores on an empty store, and the segmenter the call
\* uses is in the state a new one reaches on this page's content alone.
C17_PagesIndependent ==
    InCall =>
        /\ parser = Feed(ContentParserInit, page.content)
        /\ entries = before \o FreshCall(config, page, IF pc = "sections" THEN i ELSE 0)

\* the same page, with text before its first heading, added a second time:
\* the call appended what the first call had stored
C17_Witness ==
    /\ pc = "sections"
    /\ i = Len(parser.data)
    /\ page.content = DocIntro
    /\ config.indexing = "full"
    /\ Len(before) = 2
    /\ entries = before \o before
    /\ before[2].text # <<>>

---------------------------------------------------------------------------
(* generate_search_index leaves the index object as it found it *)

\* C18: generate_search_index leaves the entry store and the configuration
\* unchanged whatever the pre-build strategy and its outcome: a compiled index
\* is put into the call's own payload only, so a call with pre-build disabled
\* made on the store as the call left it returns a payload without an 'index'
\* key, and when a payload is generated, pages are added and a payload is
\* generated again, the first payload's 'docs' list is a prefix of the second's.
C18_GenerateLeavesStore ==
    [][Generated' =>
         /\ entries' = entries
         /\ config' = config
         /\ \A l \in LibOutcomes :
               LET r == GenerateResult(entries', [config' EXCEPT !.prebuild_index = "False"],
                                       haslunrpy', NoProc, l).ret
               IN r.raised = "" /\ ~HasKey(r.data, "index") /\ PayloadDocs(r.data) = entries
         /\ (ret.data # NoData /\ ret'.data # NoData) =>
               IsPrefix(PayloadDocs(ret.data), PayloadDocs(ret'.data))]_vars

\* a payload with a compiled index was generated for a store that had grown
\* since an earlier payload
C18_Witness ==
    /\ lastop = "generate_after_add"
    /\ ret.raised = ""
    /\ HasKey(ret.data, "index")
    /\ Len(PayloadDocs(ret.data)) = 2
    /\ entries = PayloadDocs(ret.data)
    /\ entries[1] # entries[2]

---------------------------------------------------------------------------
(* The segmenter's state on any event stream *)

\* the current section is None exactly when there is no section, and is the
\* last one otherwise; the flag needs a current section; one section per
\* heading start tag seen
SegmenterConsistent ==
    /\ (parser.section = 0) = (parser.data = <<>>)
    /\ parser.section = Len(parser.data)
    /\ parser.is_header_tag => parser.section # 0
    /\ Len(parser.data) = Cardinality({k \in 1..Len(content) : IsHeadStart(content[k])})

\* C19: on every event stream, malformed ones included (nested or unclosed
\* headings, stray or mismatched heading end tags): the current section is
\* None exactly when the section sequence is empty and is its last element
\* otherwise; the in-heading flag is set only when there is a current section;
\* there are as many sections as heading start tags seen; and within one
\* section the flag, once cleared, is not set again, so every assignment of a
\* section's title comes before every fragment of its text.
C19_SegmenterInvariants ==
    [][/\ SegmenterConsistent
       /\ SegmenterConsistent'
       /\ (~parser.is_header_tag /\ parser'.is_header_tag) =>
              Len(parser'.data) = Len(parser.data) + 1
       /\ \A n \in 1..Len(parser.data) :
              /\ n <= Len(parser'.data)
              /\ parser'.data[n].title # parser.data[n].title =>
                     parser.is_header_tag /\ parser.data[n].text = <<>>
              /\ parser'.data[n].text # parser.data[n].text =>
                     ~parser.is_header_tag /\ ~parser'.is_header_tag]_vars

\* a heading nested in an unclosed heading, ended by a mismatched end tag,
\* then a fragment: two sections, the text in the second
C19_Witness ==
    /\ pc = "feed"
    /\ Len(content) = 4
    /\ IsHeadStart(content[1]) /\ IsHeadStart(content[2])
    /\ content[3] = EndEv("h1")
    /\ content[4].kind = "data"
    /\ Len(parser.data) = 2 /\ parser.section = 2
    /\ ~parser.is_header_tag
    /\ parser.data[1].text = <<>> /\ parser.data[2].text # <<>>
    /\ parser.data[2].title = None

---------------------------------------------------------------------------
(* Which section entry can carry the composed page title *)

\* the entry emitted for the k-th segmented section, which resolved
SectionEntry(k) == entries[Len(before) + 1 + Resolved(k)]

\* C20: with full_path_in_title on, only the section at position 0 of the
\* segmented sequence can receive the composed page title: every entry
\* emitted for a later section carries its ToC node's own title, and when the
\* first segmented section is dropped because its id does not resolve, so
\* does every section entry emitted for the page.
C20_OnlyFirstSegmentedSection ==
    (pc = "sections" /\ config.full_path_in_title) =>
        \A k \in 1..i :
            (/\ parser.data[k].id \in TocIds(page.toc)
             /\ k > 1 \/ parser.data[1].id \notin TocIds(page.toc)) =>
                /\ Len(entries) >= Len(before) + 1 + Resolved(k)
                /\ SectionEntry(k).title = TocItemOf(k).title

\* a titled page whose first section has no id in the ToC and whose second
\* section resolves
C20_Witness ==
    /\ pc = "sections"
    /\ config.full_path_in_title
    /\ page_title # <<>>
    /\ i = 2
    /\ parser.data[1].id \notin TocIds(page.toc)
    /\ parser.data[2].id \in TocIds(page.toc)
    /\ Len(entries) = Len(before) + 2
    /\ SectionEntry(2).title = TocItemOf(2).title

====
